---- MODULE Spec2Model ----
(***************************************************************************)
(* A model of moon-landr's game module (src/src/game.rs): the Bevy systems *)
(* and observers of one level, each as one action, run in the order the    *)
(* schedule of `plugin` gives them.                                        *)
(*                                                                         *)
(* A frame is: input sampling, StateTransition, the physics step (avian,   *)
(* FixedPostUpdate, where the collision observers fire), then the Update   *)
(* systems.  `pc` names the stage of the frame and `todo` the Update       *)
(* systems that have not run yet in this frame.                            *)
(*                                                                         *)
(* The level is checked in slices, one specification each, over the same   *)
(* actions:                                                                *)
(*   Spec         the systems and observers that decide the game phase     *)
(*   FlightSpec   control_system and fuel_weight_system                    *)
(*   TerrainSpec  terrain_chunk_system                                     *)
(*   GenSpec      create_terrain_chunk, for any noise                      *)
(*   SeamSpec     create_terrain_chunk for two adjacent chunks             *)
(*   LandingSpec  Spec without the fire key, every schedule run to its end *)
(*   LevelsSpec   level after level, through the menu                      *)
(*   OrderSpec    the whole chain of Update systems in one level           *)
(*                                                                         *)
(* World coordinates, heights, impulses and masses are integers; a unit of *)
(* time is a second; angular speed is counted in tenths of a radian per    *)
(* second and the tilt in degrees.                                         *)
(***************************************************************************)
EXTENDS Integers, Sequences, FiniteSets, Bags, TLC

VARIABLES
    pc,              \* stage of the frame: "frame", "transition", "physics", "update"
    todo,            \* Update systems still to run in this frame
    \* ---- input and time
    keys,            \* ButtonInput<KeyCode>, the keys the game reads
    delta,           \* Time::delta of the frame
    \* ---- states
    game_state,      \* State<GameState>: "Game" or "Menu"
    next_game_state, \* NextState<GameState>: "None" or the pending state
    phase,           \* State<GamePhase>: "Running", "Win", "Lose"; "None" outside Game
    next_phase,      \* NextState<GamePhase>: "None" or the pending phase
    \* ---- the player
    fuel,            \* Fuel
    mass,            \* Mass
    player_state,    \* PlayerState
    fuel_changed,    \* Changed<Fuel> as fuel_weight_system sees it
    applied_force,   \* force the last run of control_system applied
    applied_angular_acceleration,
    motion,          \* LinearVelocity length, |AngularVelocity|, |rotation z|
    locked,          \* LockedAxes::ALL_LOCKED inserted
    grounded,        \* Grounded
    score_multiplier,\* ScoreMultiplier
    \* ---- contacts
    contacts,        \* bodies whose collider touches the player's (avian Collisions)
    collision_started, \* CollisionStart messages not yet read
    collision_ended,   \* CollisionEnd messages not yet read
    \* ---- win timer
    win_timer,       \* WinTimer(Timer)
    \* ---- the level
    players,         \* number of entities with Player
    exited_from,     \* history: the phase the previous level was left from, "None"
                     \* in the first level
    \* ---- history
    crash_observed,  \* since the last StateTransition a collision start of the player
                     \* with terrain had an impulse sum above the threshold
    held_span,       \* time of the unbroken run of ticks on which the landing conditions held
    \* ---- terrain streaming
    player_x,        \* player.translation.x
    camera_x,        \* the camera's translation.x
    chunks,          \* bag of the x_origin of every live TerrainChunk entity
    needed,          \* needed_chunk_origins of the streamer's last run
    generated,       \* x_origins create_terrain_chunk was ever called for
    regenerated,     \* x_origins create_terrain_chunk was called for more than once
    \* ---- generation of one chunk
    noise_heights,   \* the scaled noise samples of the chunk, by sample index
    rng_roll,        \* rng.random_bool(0.7) of the chunk
    chunk_spawned,   \* the chunk's entity exists
    ground_heights,  \* ground_heights when create_terrain_chunk has run
    land_pad,        \* land_pad: <<>> for None, <<x, y>> for Some(Vec2)
    previous_chunk,  \* history: <<>> or <<c>>, c the heights and pad of the chunk
                     \* of this x_origin that was despawned last
    neighbour        \* the chunk at x_origin + CHUNK_WIDTH: its noise samples, its
                     \* roll, and its ground_heights and land_pad once spawned

inputVars == <<keys, delta>>

stateVars == <<game_state, next_game_state, phase, next_phase>>

flightVars == <<fuel, mass, player_state, fuel_changed, applied_force,
                applied_angular_acceleration>>

bodyVars == <<motion, locked>>

contactVars == <<contacts, collision_started, collision_ended, grounded,
                 score_multiplier>>

historyVars == <<crash_observed, held_span>>

terrainVars == <<player_x, chunks, needed, generated, regenerated>>

genVars == <<noise_heights, rng_roll, chunk_spawned, ground_heights, land_pad,
             previous_chunk, neighbour>>

lifeVars == <<players, exited_from>>

levelVars == <<inputVars, stateVars, flightVars, bodyVars, contactVars, win_timer,
               historyVars, lifeVars, camera_x>>

vars == <<pc, todo, levelVars, terrainVars, genVars>>

(***************************************************************************)
(* Constants of game.rs.                                                   *)
(***************************************************************************)
THRUST == 12000
ROTATION_THRUST == 3
FUEL_CONSUMPTION_RATE == 1
SAFE_LANDING_IMPULSE_MAGNITUDE == 15000
FUEL_MASS_FACTOR == 1
DRY_LANDER_MASS == 800
MAX_FUEL == 1000
CHUNK_BUFFER_OUTSIDE_VIEWPORT_COUNT == 3
CHUNK_WIDTH == 400
CHUNK_GRANULARITY == 2
CAMERA_VIEWPORT_WIDTH == 1600
INITIAL_HORIZONTAL_SPEED == 50
WIN_TIMER_DURATION == 3

(***************************************************************************)
(* Bounds of the model.                                                    *)
(***************************************************************************)
\* The physics step puts the player at a multiple of PlayerStride, at most
\* MaxPlayerSteps strides from the origin on either side.
PlayerStride == 150
MaxPlayerSteps == 6

\* A generated chunk has SampleCount samples (201 in the game: 0..=CHUNK_WIDTH
\* in steps of CHUNK_GRANULARITY) and a pad spans LAND_PAD_WINDOW sample
\* intervals (LAND_PAD_WIDTH / CHUNK_GRANULARITY = 12 in the game).
SampleCount == 5
LAND_PAD_WINDOW == 2

\* A frame lasts 1..MaxDelta units of time.
MaxDelta == 2

\* The physics step of one frame reports at most MaxEventsPerFrame collision
\* events.
MaxEventsPerFrame == 2

\* The values a sample of the scaled noise takes in the model.
Heights == {0, 4, 8}

PlayerXs == { k * PlayerStride : k \in (-MaxPlayerSteps)..MaxPlayerSteps }

\* The bodies the player's collider can touch: two terrain chunks (Ground) and
\* the sensor of a landing pad (LandPad).
Bodies == {"chunk_a", "chunk_b", "pad"}

\* ground_query.get(b).is_ok()
IsGround(b) == b \in {"chunk_a", "chunk_b"}

\* landpads.get(b).is_ok()
IsLandPad(b) == b = "pad"

\* total_normal_impulse_magnitude of one contact pair (a sensor has none)
Impulses(b) ==
    IF IsGround(b)
    THEN { 0, SAFE_LANDING_IMPULSE_MAGNITUDE \div 2,
           SAFE_LANDING_IMPULSE_MAGNITUDE \div 2 + 1,
           SAFE_LANDING_IMPULSE_MAGNITUDE + 1 }
    ELSE { 0 }

\* What the physics step can leave of the player's motion: at rest and upright,
\* or with one landing condition at its threshold.
Motions ==
    { [linear_speed |-> 4, angular_speed |-> 0, tilt |-> 0],
      [linear_speed |-> 5, angular_speed |-> 0, tilt |-> 0],
      [linear_speed |-> 4, angular_speed |-> 1, tilt |-> 0],
      [linear_speed |-> 4, angular_speed |-> 0, tilt |-> 90] }

(***************************************************************************)
(* Helpers.                                                                *)
(***************************************************************************)
\* f32::ceil of a / b for positive b
CeilDiv(a, b) == -((-a) \div b)

\* f32::floor of a / b for positive b (\div rounds towards minus infinity)
FloorDiv(a, b) == a \div b

\* i32 division, which truncates towards zero
TruncDiv(a, b) == IF a >= 0 THEN a \div b ELSE -((-a) \div b)

Abs(v) == IF v < 0 THEN -v ELSE v

Min(a, b) == IF a <= b THEN a ELSE b

RECURSIVE SumOver(_, _)
SumOver(f, S) ==
    IF S = {} THEN 0
    ELSE LET x == CHOOSE y \in S : TRUE IN f[x] + SumOver(f, S \ {x})

(***************************************************************************)
(* The frame skeleton.                                                     *)
(***************************************************************************)
\* The mutant's chain streams the terrain and moves the camera after the win
\* timer.
Chain_streaming_last ==
    << "control_system", "ground_detection_system", "start_win_timer_system",
       "reset_win_timer_system", "tick_win_timer_system", "terrain_chunk_system",
       "camera_follow_system" >>

\* The chained Update systems, in chain order (audio_system touches no state
\* of the model).
Chain ==
    << "control_system", "terrain_chunk_system", "camera_follow_system",
       "ground_detection_system", "start_win_timer_system",
       "reset_win_timer_system", "tick_win_timer_system" >>

\* A system may run in the Update stage once every chained system before it
\* has run; systems outside the chain (fuel_weight_system, playtime_system)
\* are not ordered.
Ready(sys) ==
    /\ pc = "update"
    /\ sys \in todo
    /\ \A i \in 1..Len(Chain) :
          (\E j \in 1..Len(Chain) : Chain[j] = sys /\ i < j) => Chain[i] \notin todo

\* The system has run; the frame ends with the last one.
Done(sys) ==
    /\ todo' = todo \ {sys}
    /\ pc' = IF todo \ {sys} = {} THEN "frame" ELSE "update"

(***************************************************************************)
(* terrain_chunk_system                                                    *)
(***************************************************************************)
current_chunk_x_origin(px) == FloorDiv(px, CHUNK_WIDTH) * CHUNK_WIDTH

CHUNKS_IN_CAMERA_VIEWPORT == CeilDiv(CAMERA_VIEWPORT_WIDTH, CHUNK_WIDTH) + 2

\* The mutant's range is closed at its upper end.
needed_chunk_origins_inclusive(px) ==
    { current_chunk_x_origin(px) + i * CHUNK_WIDTH :
        i \in (-CHUNK_BUFFER_OUTSIDE_VIEWPORT_COUNT - TruncDiv(CHUNKS_IN_CAMERA_VIEWPORT, 2))
              .. (TruncDiv(CHUNKS_IN_CAMERA_VIEWPORT, 2) + CHUNK_BUFFER_OUTSIDE_VIEWPORT_COUNT) }

\* (lo..hi) of Rust excludes hi
needed_chunk_origins(px) ==
    { current_chunk_x_origin(px) + i * CHUNK_WIDTH :
        i \in (-CHUNK_BUFFER_OUTSIDE_VIEWPORT_COUNT - TruncDiv(CHUNKS_IN_CAMERA_VIEWPORT, 2))
              .. (TruncDiv(CHUNKS_IN_CAMERA_VIEWPORT, 2) + CHUNK_BUFFER_OUTSIDE_VIEWPORT_COUNT - 1) }

\* the chunk entities left once the despawn commands are applied
despawn_unneeded(live, need) ==
    [ o \in { x \in DOMAIN live : x \in need } |-> live[o] ]

\* The mutant asks for every needed origin, live or not.
chunks_to_add_unfiltered(live, need) == need

chunks_to_add(live, need) == { o \in need : o \notin DOMAIN live }

\* The mutant despawns nothing.
terrain_chunk_system_keep_all ==
    /\ Ready("terrain_chunk_system")
    /\ LET need == needed_chunk_origins(player_x)
           add  == chunks_to_add(chunks, need)
       IN  /\ needed' = need
           /\ chunks' = chunks (+) SetToBag(add)
           /\ generated' = generated \cup add
           /\ regenerated' = regenerated \cup (add \cap generated)
    /\ Done("terrain_chunk_system")
    /\ UNCHANGED <<player_x, levelVars, genVars>>

terrain_chunk_system ==
    /\ Ready("terrain_chunk_system")
    /\ LET need == needed_chunk_origins(player_x)
           add  == chunks_to_add(chunks, need)
       IN  /\ needed' = need
           /\ chunks' = despawn_unneeded(chunks, need) (+) SetToBag(add)
           /\ generated' = generated \cup add
           /\ regenerated' = regenerated \cup (add \cap generated)
    /\ Done("terrain_chunk_system")
    /\ UNCHANGED <<player_x, levelVars, genVars>>

\* viewport_size / 4.0 along x, for the window's default width of 1280 and an
\* orthographic scale of 1
quarter_size == 320

camera_follow_system ==
    /\ Ready("camera_follow_system")
    /\ camera_x' = IF player_x < camera_x - quarter_size THEN player_x + quarter_size
                   ELSE IF player_x > camera_x + quarter_size
                        THEN player_x - quarter_size
                   ELSE camera_x
    /\ Done("camera_follow_system")
    /\ UNCHANGED <<inputVars, stateVars, flightVars, bodyVars, contactVars, win_timer,
                   historyVars, lifeVars, terrainVars, genVars>>

\* The physics step of the terrain slice: the player is moved.
PlayerMoves ==
    /\ pc = "frame"
    /\ player_x' \in PlayerXs
    /\ pc' = "update"
    /\ todo' = {"terrain_chunk_system", "camera_follow_system"}
    /\ UNCHANGED <<chunks, needed, generated, regenerated, levelVars, genVars>>

(***************************************************************************)
(* create_terrain_chunk: the heights and the landing pad of one chunk.     *)
(***************************************************************************)
SampleIndices == 0..(SampleCount - 1)

\* (ground_heights[x_0] - ground_heights[x_1]).abs() <= 4.0
flat_enough(h, x_0, x_1) == Abs(h[x_0] - h[x_1]) <= 4

\* The mutant flattens x_0..x_1 without the last sample.
place_pad_exclusive(h, x_0, x_1) ==
    LET pad_height == (h[x_0] + h[x_1]) \div 2
        pad_x      == ((x_0 + x_1) * CHUNK_GRANULARITY) \div 2
    IN  [ heights |-> [ x \in DOMAIN h |->
                          IF x_0 <= x /\ x < x_1 THEN pad_height ELSE h[x] ],
          pad     |-> << pad_x, pad_height >> ]

\* the body of the loop at a qualifying window: flatten, record the pad
place_pad(h, x_0, x_1) ==
    LET pad_height == (h[x_0] + h[x_1]) \div 2
        pad_x      == ((x_0 + x_1) * CHUNK_GRANULARITY) \div 2
    IN  [ heights |-> [ x \in DOMAIN h |->
                          IF x_0 <= x /\ x <= x_1 THEN pad_height ELSE h[x] ],
          pad     |-> << pad_x, pad_height >> ]

\* for i in 1..(ground_heights.len() - LAND_PAD_WINDOW), from i on
RECURSIVE scan_windows(_, _)
scan_windows(h, i) ==
    IF i >= SampleCount - LAND_PAD_WINDOW
    THEN [ heights |-> h, pad |-> << >> ]
    ELSE IF flat_enough(h, i, i + LAND_PAD_WINDOW)
         THEN place_pad(h, i, i + LAND_PAD_WINDOW)
         ELSE scan_windows(h, i + 1)

\* the first index of the loop
first_window == 1

generate_chunk(h, roll) ==
    IF roll THEN scan_windows(h, first_window) ELSE [ heights |-> h, pad |-> << >> ]

\* The mutant draws the roll from a generator shared by all calls, which the
\* call advances.
create_terrain_chunk_shared_rng ==
    /\ ~chunk_spawned
    /\ LET chunk == generate_chunk(noise_heights, rng_roll)
       IN  /\ ground_heights' = chunk.heights
           /\ land_pad' = chunk.pad
    /\ chunk_spawned' = TRUE
    /\ rng_roll' \in BOOLEAN
    /\ UNCHANGED <<pc, todo, levelVars, terrainVars, noise_heights, previous_chunk,
                   neighbour>>

\* The noise generator is read-only and the rng is seeded from x_origin in the
\* call.
create_terrain_chunk ==
    /\ ~chunk_spawned
    /\ LET chunk == generate_chunk(noise_heights, rng_roll)
       IN  /\ ground_heights' = chunk.heights
           /\ land_pad' = chunk.pad
    /\ chunk_spawned' = TRUE
    /\ UNCHANGED <<pc, todo, levelVars, terrainVars, noise_heights, rng_roll,
                   previous_chunk, neighbour>>

\* The chunk is despawned; the same noise and the same seed can generate it again.
despawn_chunk ==
    /\ chunk_spawned
    /\ chunk_spawned' = FALSE
    /\ previous_chunk' = << [ heights |-> ground_heights, pad |-> land_pad ] >>
    /\ ground_heights' = noise_heights
    /\ land_pad' = << >>
    /\ UNCHANGED <<pc, todo, levelVars, terrainVars, noise_heights, rng_roll,
                   neighbour>>

\* create_terrain_chunk for x_origin + CHUNK_WIDTH, with the same generator:
\* the noise of its first sample is that of this chunk's last sample.
create_neighbour_chunk ==
    /\ ~neighbour.spawned
    /\ LET chunk == generate_chunk(neighbour.noise_heights, neighbour.rng_roll)
       IN  neighbour' = [neighbour EXCEPT !.spawned = TRUE,
                                          !.ground_heights = chunk.heights,
                                          !.land_pad = chunk.pad]
    /\ UNCHANGED <<pc, todo, levelVars, terrainVars, noise_heights, rng_roll,
                   chunk_spawned, ground_heights, land_pad, previous_chunk>>

(***************************************************************************)
(* Input sampling (PreUpdate) and the start of a frame.                    *)
(***************************************************************************)
\* ButtonInput::clear, then the key events of the frame in order
press_space(k) ==
    IF k.space_pressed THEN k
    ELSE [k EXCEPT !.space_pressed = TRUE, !.space_just_pressed = TRUE]

release_space(k) ==
    IF k.space_pressed
    THEN [k EXCEPT !.space_pressed = FALSE, !.space_just_released = TRUE]
    ELSE k

RECURSIVE space_events(_, _)
space_events(k, evs) ==
    IF evs = << >> THEN k
    ELSE space_events(IF Head(evs) = "press" THEN press_space(k) ELSE release_space(k),
                      Tail(evs))

sample_keys(k, inp) ==
    LET cleared == [k EXCEPT !.space_just_pressed = FALSE, !.space_just_released = FALSE]
        spaced  == space_events(cleared, inp.space)
    IN  [spaced EXCEPT !.escape_just_pressed = inp.escape,
                       !.left_pressed = (inp.rotate = "left"),
                       !.right_pressed = (inp.rotate = "right")]

\* The fire key is tapped, or not touched; Escape may be pressed.
PhaseInputs ==
    [ space : { << >>, <<"press", "release">> }, escape : BOOLEAN, rotate : {"none"} ]

\* The fire key is pressed and released in any order; a rotation key may be held.
FlightInputs ==
    [ space  : { << >>, <<"press">>, <<"release">>, <<"press", "release">>,
                 <<"release", "press">> },
      escape : BOOLEAN,
      rotate : {"none", "left", "right"} ]

\* On the Win and Lose screens any key the game reads may be pressed or held.
EndInputs ==
    [ space  : { << >>, <<"press">>, <<"release">> },
      escape : BOOLEAN,
      rotate : {"none", "left", "right"} ]

PhaseSlice ==
    [ inputs  |-> PhaseInputs,
      end_inputs |-> EndInputs,
      deltas  |-> 1..MaxDelta,
      physics |-> TRUE,
      systems |-> { "control_system", "ground_detection_system",
                    "start_win_timer_system", "reset_win_timer_system",
                    "tick_win_timer_system" } ]

\* The fire key and the rotation keys are never touched; Escape may be pressed.
NoFireInputs == [ space : { << >> }, escape : BOOLEAN, rotate : {"none"} ]

LandingSlice ==
    [ inputs  |-> NoFireInputs,
      end_inputs |-> NoFireInputs,
      deltas  |-> 1..MaxDelta,
      physics |-> TRUE,
      systems |-> PhaseSlice.systems ]

\* The fire key is never touched while Running; on the Win and Lose screens it
\* is tapped to leave the level.
LevelsSlice ==
    [ inputs  |-> NoFireInputs,
      end_inputs |-> [ space : { << >>, <<"press", "release">> }, escape : {FALSE},
                       rotate : {"none"} ],
      deltas  |-> 1..MaxDelta,
      physics |-> TRUE,
      systems |-> PhaseSlice.systems \cup {"terrain_chunk_system"} ]

\* Every chained system of the model runs; no key is touched while Running,
\* and on the Win and Lose screens the fire key may be pressed.
OrderSlice ==
    [ inputs  |-> [ space : { << >> }, escape : {FALSE}, rotate : {"none"} ],
      end_inputs |-> [ space : { << >>, <<"press">>, <<"release">> },
                       escape : {FALSE}, rotate : {"none"} ],
      deltas  |-> 1..MaxDelta,
      physics |-> TRUE,
      systems |-> PhaseSlice.systems
                    \cup {"terrain_chunk_system", "camera_follow_system"} ]

FlightSlice ==
    [ inputs  |-> FlightInputs,
      end_inputs |-> FlightInputs,
      deltas  |-> {1},
      physics |-> FALSE,
      systems |-> { "control_system", "fuel_weight_system" } ]

\* The mutant stops the flight systems on the Lose screen only.
systems_to_run_unless_lost(slice, ph) ==
    IF ph # "Lose" THEN slice.systems ELSE {"end_input_system"}

\* The mutant runs the flight systems in every phase.
systems_to_run_ungated(slice, ph) == slice.systems

\* run_if(in_state(GamePhase::Running)) and run_if(not(in_state(GamePhase::Running)))
systems_to_run(slice, ph) ==
    IF ph = "Running" THEN slice.systems ELSE {"end_input_system"}

\* Messages nobody read are dropped when the buffers rotate; while the phase is
\* Running ground_detection_system reads them in every frame.
BeginFrame(slice) ==
    /\ pc = "frame"
    /\ game_state = "Game"
    /\ \E inp \in (IF phase = "Running" THEN slice.inputs ELSE slice.end_inputs) :
          keys' = sample_keys(keys, inp)
    /\ delta' \in slice.deltas
    /\ collision_started' = << >>
    /\ collision_ended' = << >>
    /\ pc' = "transition"
    /\ todo' = {}
    /\ UNCHANGED <<camera_x, lifeVars, stateVars, flightVars, bodyVars, contacts, grounded,
                   score_multiplier, win_timer, historyVars, terrainVars, genVars>>

(***************************************************************************)
(* StateTransition: NextState<GameState> and NextState<GamePhase> are      *)
(* applied, OnEnter(GamePhase::Lose) runs setup_lose_screen.               *)
(***************************************************************************)
setup_lose_screen ==
    /\ player_state' = "Crashed"
    /\ motion' = [motion EXCEPT !.linear_speed = 0, !.angular_speed = 0]
    /\ locked' = TRUE

StateTransition(slice) ==
    /\ pc = "transition"
    /\ IF next_game_state = "Menu"
       THEN \* OnExit(GameState::Game): the sub-state is gone, the entities with
            \* DespawnOnExit(GameState::Game) (the player, the chunks and their
            \* pads) are despawned; cleanup_level removes the level's resources
            \* and puts the camera back at the origin
            /\ game_state' = "Menu"
            /\ phase' = "None"
            /\ players' = 0
            /\ chunks' = EmptyBag
            /\ contacts' = {}
            /\ exited_from' = phase
            /\ camera_x' = 0
            /\ pc' = "frame"
            /\ todo' = {}
            /\ UNCHANGED <<player_state, motion, locked>>
       ELSE /\ game_state' = game_state
            /\ UNCHANGED <<players, chunks, contacts, exited_from, camera_x>>
            /\ phase' = IF next_phase = "None" THEN phase ELSE next_phase
            /\ IF next_phase = "Lose"
               THEN setup_lose_screen
               ELSE UNCHANGED <<player_state, motion, locked>>
            /\ IF slice.physics
               THEN pc' = "physics" /\ todo' = {}
               ELSE pc' = "update" /\ todo' = systems_to_run(slice, phase')
    /\ next_game_state' = "None"
    /\ next_phase' = "None"
    /\ crash_observed' = FALSE
    /\ UNCHANGED <<inputVars, fuel, mass, fuel_changed, applied_force,
                   applied_angular_acceleration, collision_started, collision_ended,
                   grounded, score_multiplier, win_timer, held_span, player_x,
                   needed, generated, regenerated, genVars>>

(***************************************************************************)
(* Starting a level: OnEnter(GameState::Game) runs setup_level.            *)
(***************************************************************************)
\* Timer::from_seconds(WIN_TIMER_DURATION, TimerMode::Once)
new_win_timer ==
    [ elapsed |-> 0, paused |-> FALSE, finished |-> FALSE,
      times_finished_this_tick |-> 0 ]

\* The mutant inserts a WinTimer only when the world has none, and the model
\* keeps the removed timer's value.
setup_level_keeps_timer ==
    /\ players' = players + 1
    /\ fuel' = MAX_FUEL
    /\ mass' = DRY_LANDER_MASS + MAX_FUEL * FUEL_MASS_FACTOR
    /\ player_state' = "Idle"
    /\ fuel_changed' = TRUE
    /\ applied_force' = 0
    /\ applied_angular_acceleration' = 0
    /\ motion' = [ linear_speed |-> INITIAL_HORIZONTAL_SPEED, angular_speed |-> 0,
                   tilt |-> 90 ]
    /\ locked' = FALSE
    /\ grounded' = FALSE
    /\ score_multiplier' = 1
    /\ player_x' = 0
    /\ camera_x' = CAMERA_VIEWPORT_WIDTH \div 2
    /\ win_timer' = win_timer

\* The camera is placed, the player spawned and the WinTimer inserted.
setup_level ==
    /\ players' = players + 1
    /\ fuel' = MAX_FUEL
    /\ mass' = DRY_LANDER_MASS + MAX_FUEL * FUEL_MASS_FACTOR
    /\ player_state' = "Idle"
    /\ fuel_changed' = TRUE
    /\ applied_force' = 0
    /\ applied_angular_acceleration' = 0
    /\ motion' = [ linear_speed |-> INITIAL_HORIZONTAL_SPEED, angular_speed |-> 0,
                   tilt |-> 90 ]
    /\ locked' = FALSE
    /\ grounded' = FALSE
    /\ score_multiplier' = 1
    /\ player_x' = 0
    /\ camera_x' = CAMERA_VIEWPORT_WIDTH \div 2
    /\ win_timer' = new_win_timer

\* The menu starts a level: GameState becomes Game, GamePhase its default
\* Running, and setup_level runs.  No key is held when the level starts.
start_level ==
    /\ pc = "frame"
    /\ game_state = "Menu"
    /\ keys = [ space_pressed |-> FALSE, space_just_pressed |-> FALSE,
                space_just_released |-> FALSE, escape_just_pressed |-> FALSE,
                left_pressed |-> FALSE, right_pressed |-> FALSE ]
    /\ game_state' = "Game"
    /\ phase' = "Running"
    /\ setup_level
    /\ held_span' = 0
    /\ needed' = {}
    /\ generated' = {}
    /\ regenerated' = {}
    /\ UNCHANGED <<pc, todo, inputVars, next_game_state, next_phase, contacts,
                   collision_started, collision_ended, crash_observed, exited_from,
                   chunks, genVars>>

(***************************************************************************)
(* The physics step: collision events, each triggering its observers and   *)
(* written as a message, then the player's motion.                         *)
(***************************************************************************)
\* the impulse of every contact pair of the player, the new one included
PairImpulses(S) ==
    { f \in [ S -> UNION { Impulses(b) : b \in Bodies } ] :
        \A b \in S : f[b] \in Impulses(b) }

\* The mutant requests Lose at the threshold itself.
player_crash_observer_at_threshold(other_entity, impact_impulse_magnitude) ==
    IF ~IsGround(other_entity) THEN next_phase
    ELSE IF impact_impulse_magnitude >= SAFE_LANDING_IMPULSE_MAGNITUDE THEN "Lose"
    ELSE next_phase

\* NextState<GamePhase> after the observer, for a CollisionStart of the player
\* with other_entity
player_crash_observer(other_entity, impact_impulse_magnitude) ==
    IF ~IsGround(other_entity) THEN next_phase
    ELSE IF impact_impulse_magnitude > SAFE_LANDING_IMPULSE_MAGNITUDE THEN "Lose"
    ELSE next_phase

\* LandPad { score_multiplier: 3.0 } of every pad
pad_score_multiplier == 3

\* ScoreMultiplier after the observer of this_entity for a CollisionStart with
\* other_entity; only pads carry the observer
player_entered_landing_zone(this_entity, other_entity) ==
    IF ~IsLandPad(this_entity) THEN score_multiplier
    ELSE IF other_entity # "player" THEN score_multiplier
    ELSE pad_score_multiplier

\* The mutant clears the multiplier when the player leaves a pad.
player_exited_landing_zone_to_zero(this_entity, other_entity) ==
    IF ~IsLandPad(this_entity) THEN score_multiplier
    ELSE IF other_entity # "player" THEN score_multiplier
    ELSE 0

\* ScoreMultiplier after the observer of this_entity for a CollisionEnd with
\* other_entity; only pads carry the observer
player_exited_landing_zone(this_entity, other_entity) ==
    IF ~IsLandPad(this_entity) THEN score_multiplier
    ELSE IF other_entity # "player" THEN score_multiplier
    ELSE 1

EventsThisFrame == Len(collision_started) + Len(collision_ended)

CollisionStart(b) ==
    /\ pc = "physics"
    /\ ~locked
    /\ b \notin contacts
    /\ EventsThisFrame < MaxEventsPerFrame
    /\ \E imp \in PairImpulses(contacts \cup {b}) :
         LET sum == SumOver(imp, contacts \cup {b})
         IN  /\ next_phase' = player_crash_observer(b, sum)
             /\ crash_observed' =
                  (crash_observed
                     \/ (IsGround(b) /\ sum > SAFE_LANDING_IMPULSE_MAGNITUDE))
    /\ score_multiplier' = player_entered_landing_zone(b, "player")
    /\ contacts' = contacts \cup {b}
    /\ collision_started' = Append(collision_started, b)
    /\ UNCHANGED <<camera_x, lifeVars, pc, todo, inputVars, game_state, next_game_state, phase,
                   flightVars, bodyVars, collision_ended, grounded, win_timer,
                   held_span, terrainVars, genVars>>

CollisionEnd(b) ==
    /\ pc = "physics"
    /\ ~locked
    /\ b \in contacts
    /\ EventsThisFrame < MaxEventsPerFrame
    /\ score_multiplier' = player_exited_landing_zone(b, "player")
    /\ contacts' = contacts \ {b}
    /\ collision_ended' = Append(collision_ended, b)
    /\ UNCHANGED <<camera_x, lifeVars, pc, todo, inputVars, stateVars, flightVars, bodyVars,
                   collision_started, grounded, win_timer, historyVars,
                   terrainVars, genVars>>

\* The step is over (or no step ran in this frame: the motion is as it was).
PhysicsDone(slice) ==
    /\ pc = "physics"
    /\ motion' \in (IF locked THEN {motion} ELSE Motions \cup {motion})
    /\ pc' = "update"
    /\ todo' = systems_to_run(slice, phase)
    /\ UNCHANGED <<camera_x, lifeVars, inputVars, stateVars, flightVars, locked, contactVars, win_timer,
                   historyVars, terrainVars, genVars>>

(***************************************************************************)
(* control_system, fuel_weight_system, end_input_system                    *)
(***************************************************************************)
\* u32::saturating_sub
saturating_sub(a, b) == IF a >= b THEN a - b ELSE 0

\* The mutant thrusts on an empty tank.
thrusting_on_empty(k, f) == k.space_pressed

\* The mutant burns fuel whether or not the fire key is held.
thrusting_without_key(k, f) == f > 0

\* if player.3.0 > 0 { .. if keyboard_input.pressed(KeyCode::Space) { .. } }
thrusting(k, f) == f > 0 /\ k.space_pressed

\* The mutant does not look at the release of the fire key.
player_state_ignoring_release(k, st, f, burnt) ==
    LET firing == IF f > 0 /\ k.space_just_pressed THEN "Firing" ELSE st
    IN  IF burnt = 0 THEN "Idle" ELSE firing

\* PlayerState after control_system: f is the fuel before and burnt the fuel
\* after the run
player_state_after(k, st, f, burnt) ==
    LET firing == IF f > 0 /\ k.space_just_pressed THEN "Firing" ELSE st
    IN  IF (k.space_just_released /\ firing = "Firing") \/ burnt = 0
        THEN "Idle" ELSE firing

control_system ==
    /\ Ready("control_system")
    /\ applied_angular_acceleration' =
          (IF keys.left_pressed THEN ROTATION_THRUST ELSE 0)
          + (IF keys.right_pressed THEN -ROTATION_THRUST ELSE 0)
    /\ LET burning   == thrusting(keys, fuel)
           burnt     == IF burning
                        THEN saturating_sub(fuel, FUEL_CONSUMPTION_RATE) ELSE fuel
       IN  /\ applied_force' = IF burning THEN THRUST ELSE 0
           /\ fuel' = burnt
           /\ fuel_changed' = (fuel_changed \/ burning)
           /\ player_state' = player_state_after(keys, player_state, fuel, burnt)
    /\ next_game_state' = IF keys.escape_just_pressed THEN "Menu" ELSE next_game_state
    /\ Done("control_system")
    /\ UNCHANGED <<camera_x, lifeVars, inputVars, game_state, phase, next_phase, mass, bodyVars,
                   contactVars, win_timer, historyVars, terrainVars, genVars>>

\* Single<.., Changed<Fuel>>: without a change since its last run the system is
\* skipped.
fuel_weight_system ==
    /\ Ready("fuel_weight_system")
    /\ mass' = IF fuel_changed THEN DRY_LANDER_MASS + fuel * FUEL_MASS_FACTOR ELSE mass
    /\ fuel_changed' = FALSE
    /\ Done("fuel_weight_system")
    /\ UNCHANGED <<camera_x, lifeVars, inputVars, stateVars, fuel, player_state, applied_force,
                   applied_angular_acceleration, bodyVars, contactVars, win_timer,
                   historyVars, terrainVars, genVars>>

end_input_system ==
    /\ Ready("end_input_system")
    /\ next_game_state' = IF keys.space_just_pressed THEN "Menu" ELSE next_game_state
    /\ Done("end_input_system")
    /\ UNCHANGED <<camera_x, lifeVars, inputVars, game_state, phase, next_phase, flightVars, bodyVars,
                   contactVars, win_timer, historyVars, terrainVars, genVars>>

(***************************************************************************)
(* ground_detection_system                                                 *)
(***************************************************************************)
\* for event in collision_started.read(): the player is the one entity with
\* Grounded, `other` the body it collides with
RECURSIVE read_started(_, _)
read_started(g, evs) ==
    IF evs = << >> THEN g
    ELSE read_started(IF IsGround(Head(evs)) THEN TRUE ELSE g, Tail(evs))

\* for event in collision_ended.read()
RECURSIVE read_ended(_, _)
read_ended(g, evs) ==
    IF evs = << >> THEN g
    ELSE read_ended(IF IsGround(Head(evs)) THEN FALSE ELSE g, Tail(evs))

\* The four landing conditions, on the state the win-timer systems of this tick
\* read.
LandingConditions(g, m) ==
    /\ g
    /\ m.linear_speed < 5
    /\ m.angular_speed < 1
    /\ m.tilt < 90

ground_detection_system ==
    /\ Ready("ground_detection_system")
    /\ grounded' = read_ended(read_started(grounded, collision_started), collision_ended)
    /\ collision_started' = << >>
    /\ collision_ended' = << >>
    /\ held_span' = IF LandingConditions(grounded', motion)
                    THEN Min(held_span + delta, WIN_TIMER_DURATION)
                    ELSE 0
    /\ Done("ground_detection_system")
    /\ UNCHANGED <<camera_x, lifeVars, inputVars, stateVars, flightVars, bodyVars, contacts,
                   score_multiplier, win_timer, crash_observed, terrainVars, genVars>>

(***************************************************************************)
(* The win timer: Timer::from_seconds(WIN_TIMER_DURATION, TimerMode::Once) *)
(***************************************************************************)
\* The mutant's reset keeps the elapsed time.
timer_reset_keeps_elapsed(t) ==
    [t EXCEPT !.finished = FALSE, !.times_finished_this_tick = 0]

\* Timer::reset
timer_reset(t) ==
    [t EXCEPT !.elapsed = 0, !.finished = FALSE, !.times_finished_this_tick = 0]

\* Timer::tick for TimerMode::Once
timer_tick(t, d) ==
    IF t.paused THEN [t EXCEPT !.times_finished_this_tick = 0]
    ELSE IF t.finished THEN [t EXCEPT !.times_finished_this_tick = 0]
    ELSE IF t.elapsed + d >= WIN_TIMER_DURATION
         THEN [t EXCEPT !.elapsed = WIN_TIMER_DURATION, !.finished = TRUE,
                        !.times_finished_this_tick = 1]
         ELSE [t EXCEPT !.elapsed = t.elapsed + d, !.times_finished_this_tick = 0]

\* Timer::just_finished
just_finished(t) == t.times_finished_this_tick > 0

\* The mutant resumes the timer without resetting it.
start_win_timer_system_no_reset ==
    /\ Ready("start_win_timer_system")
    /\ win_timer' =
         IF /\ win_timer.paused
            /\ grounded
            /\ motion.linear_speed < 5
            /\ motion.angular_speed < 1
            /\ motion.tilt < 90
         THEN [win_timer EXCEPT !.paused = FALSE]
         ELSE win_timer
    /\ Done("start_win_timer_system")
    /\ UNCHANGED <<camera_x, lifeVars, inputVars, stateVars, flightVars, bodyVars, contactVars,
                   historyVars, terrainVars, genVars>>

\* The mutant restarts the timer on every tick on which the conditions hold.
start_win_timer_system_always_resets ==
    /\ Ready("start_win_timer_system")
    /\ win_timer' =
         IF /\ grounded
            /\ motion.linear_speed < 5
            /\ motion.angular_speed < 1
            /\ motion.tilt < 90
         THEN [timer_reset(win_timer) EXCEPT !.paused = FALSE]
         ELSE win_timer
    /\ Done("start_win_timer_system")
    /\ UNCHANGED <<camera_x, lifeVars, inputVars, stateVars, flightVars, bodyVars, contactVars,
                   historyVars, terrainVars, genVars>>

start_win_timer_system ==
    /\ Ready("start_win_timer_system")
    /\ win_timer' =
         IF /\ win_timer.paused
            /\ grounded
            /\ motion.linear_speed < 5
            /\ motion.angular_speed < 1
            /\ motion.tilt < 90
         THEN [timer_reset(win_timer) EXCEPT !.paused = FALSE]
         ELSE win_timer
    /\ Done("start_win_timer_system")
    /\ UNCHANGED <<camera_x, lifeVars, inputVars, stateVars, flightVars, bodyVars, contactVars,
                   historyVars, terrainVars, genVars>>

\* The mutant pauses the timer only when the player leaves the ground.
reset_win_timer_system_on_liftoff ==
    /\ Ready("reset_win_timer_system")
    /\ win_timer' =
         IF ~win_timer.paused /\ ~grounded
         THEN [win_timer EXCEPT !.paused = TRUE]
         ELSE win_timer
    /\ Done("reset_win_timer_system")
    /\ UNCHANGED <<camera_x, lifeVars, inputVars, stateVars, flightVars, bodyVars,
                   contactVars, historyVars, terrainVars, genVars>>

reset_win_timer_system ==
    /\ Ready("reset_win_timer_system")
    /\ win_timer' =
         IF /\ ~win_timer.paused
            /\ \/ ~grounded
               \/ motion.linear_speed >= 5
               \/ motion.angular_speed >= 1
               \/ motion.tilt >= 90
         THEN [win_timer EXCEPT !.paused = TRUE]
         ELSE win_timer
    /\ Done("reset_win_timer_system")
    /\ UNCHANGED <<camera_x, lifeVars, inputVars, stateVars, flightVars, bodyVars, contactVars,
                   historyVars, terrainVars, genVars>>

tick_win_timer_system ==
    /\ Ready("tick_win_timer_system")
    /\ win_timer' = timer_tick(win_timer, delta)
    /\ next_phase' = IF just_finished(win_timer') THEN "Win" ELSE next_phase
    /\ Done("tick_win_timer_system")
    /\ UNCHANGED <<camera_x, lifeVars, inputVars, game_state, next_game_state, phase, flightVars,
                   bodyVars, contactVars, historyVars, terrainVars, genVars>>

(***************************************************************************)
(* Initial states and specifications.                                      *)
(***************************************************************************)
\* The level as setup_level leaves it, with the fire key held or not.
LevelStart(space_held) ==
    /\ pc = "frame"
    /\ todo = {}
    /\ keys = [ space_pressed |-> space_held, space_just_pressed |-> FALSE,
                space_just_released |-> FALSE, escape_just_pressed |-> FALSE,
                left_pressed |-> FALSE, right_pressed |-> FALSE ]
    /\ delta = 0
    /\ game_state = "Game"
    /\ next_game_state = "None"
    /\ phase = "Running"
    /\ next_phase = "None"
    /\ fuel = MAX_FUEL
    /\ mass = DRY_LANDER_MASS + MAX_FUEL * FUEL_MASS_FACTOR
    /\ player_state = "Idle"
    /\ fuel_changed = TRUE
    /\ applied_force = 0
    /\ applied_angular_acceleration = 0
    /\ motion = [ linear_speed |-> INITIAL_HORIZONTAL_SPEED, angular_speed |-> 0,
                  tilt |-> 90 ]
    /\ locked = FALSE
    /\ grounded = FALSE
    /\ score_multiplier = 1
    /\ contacts = {}
    /\ collision_started = << >>
    /\ collision_ended = << >>
    /\ win_timer = new_win_timer
    /\ players = 1
    /\ exited_from = "None"
    /\ crash_observed = FALSE
    /\ held_span = 0
    /\ player_x = 0
    /\ camera_x = CAMERA_VIEWPORT_WIDTH \div 2
    /\ chunks = EmptyBag
    /\ needed = {}
    /\ generated = {}
    /\ regenerated = {}

\* No chunk is being generated.
NoChunk ==
    /\ noise_heights = [ x \in SampleIndices |-> 0 ]
    /\ rng_roll = FALSE
    /\ chunk_spawned = FALSE
    /\ ground_heights = [ x \in SampleIndices |-> 0 ]
    /\ land_pad = << >>
    /\ previous_chunk = << >>
    /\ neighbour = [ noise_heights |-> [ x \in SampleIndices |-> 0 ],
                     rng_roll |-> FALSE, spawned |-> FALSE,
                     ground_heights |-> [ x \in SampleIndices |-> 0 ],
                     land_pad |-> << >> ]

Init == LevelStart(FALSE) /\ NoChunk

Next ==
    \/ BeginFrame(PhaseSlice)
    \/ StateTransition(PhaseSlice)
    \/ \E b \in Bodies : CollisionStart(b)
    \/ \E b \in Bodies : CollisionEnd(b)
    \/ PhysicsDone(PhaseSlice)
    \/ control_system
    \/ ground_detection_system
    \/ start_win_timer_system
    \/ reset_win_timer_system
    \/ tick_win_timer_system
    \/ end_input_system

Spec == Init /\ [][Next]_vars

\* A level in which the fire key is never pressed.
LandingNext ==
    \/ BeginFrame(LandingSlice)
    \/ StateTransition(LandingSlice)
    \/ \E b \in Bodies : CollisionStart(b)
    \/ \E b \in Bodies : CollisionEnd(b)
    \/ PhysicsDone(LandingSlice)
    \/ control_system
    \/ ground_detection_system
    \/ start_win_timer_system
    \/ reset_win_timer_system
    \/ tick_win_timer_system
    \/ end_input_system

\* The app runs frame after frame and every schedule runs to its end.
LandingSpec == Init /\ [][LandingNext]_vars /\ WF_vars(LandingNext)

\* Level after level: the level is left for the menu and started again.
LevelsNext ==
    \/ BeginFrame(LevelsSlice)
    \/ StateTransition(LevelsSlice)
    \/ \E b \in Bodies : CollisionStart(b)
    \/ \E b \in Bodies : CollisionEnd(b)
    \/ PhysicsDone(LevelsSlice)
    \/ control_system
    \/ terrain_chunk_system
    \/ ground_detection_system
    \/ start_win_timer_system
    \/ reset_win_timer_system
    \/ tick_win_timer_system
    \/ end_input_system
    \/ start_level

LevelsSpec == Init /\ [][LevelsNext]_vars

\* One level with the whole chain of Update systems.
OrderNext ==
    \/ BeginFrame(OrderSlice)
    \/ StateTransition(OrderSlice)
    \/ \E b \in Bodies : CollisionStart(b)
    \/ \E b \in Bodies : CollisionEnd(b)
    \/ PhysicsDone(OrderSlice)
    \/ control_system
    \/ terrain_chunk_system
    \/ camera_follow_system
    \/ ground_detection_system
    \/ start_win_timer_system
    \/ reset_win_timer_system
    \/ tick_win_timer_system
    \/ end_input_system

OrderSpec == Init /\ [][OrderNext]_vars

\* The fire key may be held when the level starts.
FlightInit == (\E held \in BOOLEAN : LevelStart(held)) /\ NoChunk

FlightNext ==
    \/ BeginFrame(FlightSlice)
    \/ StateTransition(FlightSlice)
    \/ control_system
    \/ fuel_weight_system

FlightSpec == FlightInit /\ [][FlightNext]_vars

TerrainNext == PlayerMoves \/ terrain_chunk_system \/ camera_follow_system

TerrainSpec == Init /\ [][TerrainNext]_vars

\* One call of create_terrain_chunk, for any noise and any roll.
GenInit ==
    /\ LevelStart(FALSE)
    /\ noise_heights \in [ SampleIndices -> Heights ]
    /\ rng_roll \in BOOLEAN
    /\ chunk_spawned = FALSE
    /\ ground_heights = noise_heights
    /\ land_pad = << >>
    /\ previous_chunk = << >>
    /\ neighbour = [ noise_heights |-> [ x \in SampleIndices |-> noise_heights[SampleCount - 1] ],
                     rng_roll |-> FALSE, spawned |-> FALSE,
                     ground_heights |-> [ x \in SampleIndices |-> noise_heights[SampleCount - 1] ],
                     land_pad |-> << >> ]

GenNext == create_terrain_chunk \/ despawn_chunk

GenSpec == GenInit /\ [][GenNext]_vars

\* Two adjacent chunks of one generator, for any noise and any rolls: sample
\* SampleCount - 1 of the left chunk and sample 0 of the right one are the
\* noise at the same x.
SeamInit ==
    /\ LevelStart(FALSE)
    /\ noise_heights \in [ SampleIndices -> Heights ]
    /\ rng_roll \in BOOLEAN
    /\ chunk_spawned = FALSE
    /\ ground_heights = noise_heights
    /\ land_pad = << >>
    /\ previous_chunk = << >>
    /\ \E h \in [ SampleIndices -> Heights ], roll \in BOOLEAN :
          /\ h[0] = noise_heights[SampleCount - 1]
          /\ neighbour = [ noise_heights |-> h, rng_roll |-> roll, spawned |-> FALSE,
                           ground_heights |-> h, land_pad |-> << >> ]

SeamNext == create_terrain_chunk \/ create_neighbour_chunk

SeamSpec == SeamInit /\ [][SeamNext]_vars

(***************************************************************************)
(* Properties of terrain streaming (TerrainSpec).                          *)
(***************************************************************************)
\* terrain_chunk_system has run and the player has not moved since
StreamerHasRun == pc = "frame" /\ needed # {}

LiveOrigins == BagToSet(chunks)

\* C1: after every run of terrain_chunk_system the set of live chunk origins
\* is exactly the needed window of the player's current chunk: no needed chunk
\* is missing and no chunk outside the window is left.
C1_LiveChunksAreNeededWindow ==
    StreamerHasRun =>
        /\ needed = needed_chunk_origins(player_x)
        /\ \A o \in needed : o \in LiveOrigins
        /\ \A o \in LiveOrigins : o \in needed

\* The player is left of the origin and a chunk generated earlier is gone.
C1_Witness ==
    /\ StreamerHasRun
    /\ player_x < 0
    /\ generated \ LiveOrigins # {}
    /\ LiveOrigins = needed

\* C9, as claimed: no chunk origin is ever generated a second time.
C9_GeneratedOnce == regenerated = {}

\* C9, amended: a chunk index never has two live chunks at once, and every
\* live chunk was generated for its index (an index whose chunk was destroyed
\* is generated again when the window comes back to it).
C9_OneLiveChunkPerIndex ==
    /\ \A o \in LiveOrigins : CopiesIn(o, chunks) = 1
    /\ LiveOrigins \subseteq generated

\* An origin was generated a second time and is live, once.
C9_Witness ==
    \E o \in regenerated : o \in LiveOrigins /\ CopiesIn(o, chunks) = 1

\* the chunks of the window left and right of the chunk at origin cur
LeftOf(cur) == { o \in needed : o < cur }

RightOf(cur) == { o \in needed : o > cur }

\* the window has no gap: every chunk but the leftmost has its left neighbour
Contiguous(S) ==
    \A o \in S : (\A p \in S : o <= p) \/ (o - CHUNK_WIDTH) \in S

WindowSize ==
    CeilDiv(CAMERA_VIEWPORT_WIDTH, CHUNK_WIDTH) + 2
        + 2 * CHUNK_BUFFER_OUTSIDE_VIEWPORT_COUNT

\* the origin in the window of the chunk that holds the player
IsPlayerChunk(cur) ==
    /\ cur \in needed
    /\ cur % CHUNK_WIDTH = 0
    /\ cur <= player_x
    /\ player_x < cur + CHUNK_WIDTH

\* C10, as claimed: the window holds ceil(viewport/chunk) + 2 + 2*buffer
\* contiguous chunks and has as many chunks left of the player's chunk as
\* right of it.
C10_SymmetricWindow ==
    StreamerHasRun =>
        \E cur \in needed :
            /\ IsPlayerChunk(cur)
            /\ Cardinality(needed) = WindowSize
            /\ Contiguous(needed)
            /\ Cardinality(LeftOf(cur)) = Cardinality(RightOf(cur))

\* C10, amended: the window holds ceil(viewport/chunk) + 2 + 2*buffer
\* contiguous chunks, the player's chunk among them, and has one chunk more
\* left of the player's chunk than right of it, for negative and positive x.
C10_WindowOneMoreLeft ==
    StreamerHasRun =>
        \E cur \in needed :
            /\ IsPlayerChunk(cur)
            /\ Cardinality(needed) = WindowSize
            /\ Contiguous(needed)
            /\ Cardinality(LeftOf(cur)) = Cardinality(RightOf(cur)) + 1
            /\ 2 * Cardinality(LeftOf(cur)) = WindowSize

\* The window of a player at a negative x that is no chunk border.
C10_Witness ==
    /\ StreamerHasRun
    /\ player_x < 0
    /\ player_x % CHUNK_WIDTH # 0
    /\ Cardinality(needed) = WindowSize

(***************************************************************************)
(* Properties of chunk generation (GenSpec).                               *)
(***************************************************************************)
\* x_0 of the window the pad was placed on, from pad_x = (x_0 + x_1) * g / 2
PadStart == ((2 * land_pad[1]) \div CHUNK_GRANULARITY - LAND_PAD_WINDOW) \div 2

\* the endpoints of the window starting at sample i differ by at most the
\* tolerance, before flattening
Qualifies(i) == Abs(noise_heights[i] - noise_heights[i + LAND_PAD_WINDOW]) <= 4

\* C8: a chunk's pad lies on a window whose endpoint heights differ by at most
\* the tolerance, and no window starting further left, the one at the first
\* sample included, qualifies.
C8_LeftmostFlatWindow ==
    (chunk_spawned /\ land_pad # << >>) =>
        /\ Qualifies(PadStart)
        /\ \A j \in 0..(PadStart - 1) : ~Qualifies(j)

(***************************************************************************)
(* Properties of the flight systems (FlightSpec).                          *)
(***************************************************************************)
\* the step is a run of control_system
ControlRuns == "control_system" \in todo /\ "control_system" \notin todo'

\* C6: fuel stays in 0..MAX_FUEL and never grows; a Running tick with the fire
\* key held and fuel left takes exactly the consumption rate off it, clamped
\* at zero, and nothing else changes it.
C6_FuelOnlyBurns ==
    [][ /\ fuel' \in 0..MAX_FUEL
        /\ fuel' <= fuel
        /\ IF ControlRuns /\ phase = "Running" /\ keys.space_pressed /\ fuel > 0
           THEN fuel' = IF fuel > FUEL_CONSUMPTION_RATE
                        THEN fuel - FUEL_CONSUMPTION_RATE ELSE 0
           ELSE fuel' = fuel ]_vars

\* The tank is empty at the end of a tick with the fire key still held.
C6_Witness == pc = "frame" /\ fuel = 0 /\ keys.space_pressed

\* C7: after every tick the mass is the dry mass plus the mass of the fuel,
\* in whichever order the schedule runs fuel_weight_system and control_system.
C7_MassFollowsFuel ==
    (pc = "frame" /\ game_state = "Game") =>
        mass = DRY_LANDER_MASS + fuel * FUEL_MASS_FACTOR

(***************************************************************************)
(* Properties of the game phase (Spec).                                    *)
(***************************************************************************)
\* C2: Win is requested, and entered, only when the four landing conditions
\* have held on every tick of an unbroken span of at least the win duration.
C2_WinNeedsUnbrokenSpan ==
    (next_phase = "Win" \/ phase = "Win") => held_span >= WIN_TIMER_DURATION

\* The level is won.
C2_Witness == phase = "Win" /\ held_span >= WIN_TIMER_DURATION

\* C3: a crash observed while Running makes the next transition of the phase
\* one to Lose, whatever else runs in that tick (leaving the level aside).
C3_CrashBecomesLose ==
    [][ ( /\ pc = "transition"
          /\ phase = "Running"
          /\ crash_observed
          /\ next_game_state = "None" ) => phase' = "Lose" ]_vars

\* C4: Lose is requested only by a collision start of the player with terrain
\* whose impulse sum is above the threshold, and the phase becomes Lose only
\* after such a request.
C4_LoseNeedsCrash ==
    [][ /\ (next_phase' = "Lose" /\ next_phase # "Lose")
               => (pc = "physics" /\ crash_observed')
        /\ (phase' = "Lose" /\ phase # "Lose") => crash_observed ]_vars

\* The level is lost.
C4_Witness == phase = "Lose" /\ locked

\* C5: once the phase is Win or Lose it stays so while the level lasts.
C5_TerminalPhases ==
    [][ (phase \in {"Win", "Lose"} /\ game_state' = "Game") => phase' = phase ]_vars

\* C11: entering Lose zeroes the player's linear and angular velocity, locks
\* its axes and sets its state to Crashed; from then on the state stays
\* Crashed and no input applies a force or a torque or burns fuel.
C11_LoseFreezesPlayer ==
    [][ /\ (phase' = "Lose" /\ phase # "Lose")
               => /\ motion'.linear_speed = 0
                  /\ motion'.angular_speed = 0
                  /\ locked'
                  /\ player_state' = "Crashed"
        /\ (phase = "Lose" /\ phase' = "Lose")
               => /\ player_state' = "Crashed"
                  /\ locked'
                  /\ motion' = motion
                  /\ fuel' = fuel
                  /\ applied_force' = applied_force
                  /\ applied_angular_acceleration' = applied_angular_acceleration ]_vars

\* A tick on the Lose screen has ended with the fire key and a rotation key held.
C11_Witness ==
    /\ phase = "Lose"
    /\ pc = "frame"
    /\ keys.space_pressed
    /\ keys.left_pressed
    /\ fuel > 0

\* C12: a Running tick that ends with fuel 0 ends with the state Idle, also
\* with the fire key held; a run of control_system that begins with fuel 0
\* applies no thrust, leaves fuel at 0 and leaves the state Idle, whatever the
\* input.
C12_EmptyTankIsIdle ==
    [][ /\ (ControlRuns /\ fuel' = 0) => player_state' = "Idle"
        /\ (ControlRuns /\ fuel = 0)
               => (applied_force' = 0 /\ fuel' = 0 /\ player_state' = "Idle")
        /\ (pc' = "frame" /\ phase' = "Running" /\ fuel' = 0)
               => player_state' = "Idle" ]_vars

\* A tick that began with an empty tank has ended with the fire key pressed in it.
C12_Witness ==
    /\ pc = "frame"
    /\ phase = "Running"
    /\ fuel = 0
    /\ applied_force = 0
    /\ keys.space_just_pressed
    /\ keys.space_pressed

ConditionsHoldAtTick ==
    (pc = "update" /\ phase = "Running" /\ "ground_detection_system" \notin todo)
        => LandingConditions(grounded, motion)

\* C14: if from some tick on the level goes on without a crash taking it to
\* Lose and the four landing conditions hold on every tick, the phase
\* eventually becomes Win; no fire input is needed.
C14_HeldLandingWins ==
    <>[](game_state = "Game" /\ phase # "Lose" /\ ConditionsHoldAtTick)
        => <>(phase = "Win")

\* The level is won with a full tank and the fire key never pressed, the timer
\* having just finished.
C14_Witness ==
    /\ phase = "Win"
    /\ player_state = "Idle"
    /\ pc = "physics"
    /\ win_timer.finished
    /\ just_finished(win_timer)
    /\ fuel = MAX_FUEL

\* the player's collider touches a body tagged Ground
TouchesGround == \E b \in contacts : IsGround(b)

\* C15: once ground_detection_system has run in a tick, Grounded is true
\* exactly when the player touches at least one terrain body.
C15_GroundedIffTouching ==
    (pc = "update" /\ phase = "Running" /\ "ground_detection_system" \notin todo)
        => (grounded <=> TouchesGround)

\* the pads the player's collider touches
PadsTouched == { b \in contacts : IsLandPad(b) }

\* C16: when a pad sensor starts touching the player the ScoreMultiplier is
\* the pad's; when it stops touching the player the ScoreMultiplier is 1;
\* nothing else changes it while the player exists, a pad event with another
\* body would not change it either, and it is never below 1.
C16_PadSetsMultiplier ==
    [][ /\ (PadsTouched' \ PadsTouched # {})
              => score_multiplier' = pad_score_multiplier
        /\ (PadsTouched \ PadsTouched' # {} /\ players' = 1)
              => score_multiplier' = 1
        /\ (PadsTouched' = PadsTouched) => score_multiplier' = score_multiplier
        /\ \A pad \in Bodies : \A other \in Bodies :
              /\ player_entered_landing_zone(pad, other) = score_multiplier
              /\ player_exited_landing_zone(pad, other) = score_multiplier
        /\ score_multiplier >= 1
        /\ score_multiplier' >= 1 ]_vars

\* The player has left a pad it had entered, in a tick that ended with the
\* multiplier back at 1 and the player on the ground.
C16_Witness ==
    /\ pc = "update"
    /\ collision_ended # << >>
    /\ IsLandPad(collision_ended[Len(collision_ended)])
    /\ score_multiplier = 1
    /\ TouchesGround

LevelIsFresh ==
    /\ players = 1
    /\ fuel = MAX_FUEL
    /\ mass = DRY_LANDER_MASS + MAX_FUEL * FUEL_MASS_FACTOR
    /\ player_state = "Idle"
    /\ grounded = FALSE
    /\ score_multiplier = 1
    /\ ~locked
    /\ phase = "Running"
    /\ next_phase = "None"
    /\ next_game_state = "None"
    /\ win_timer.elapsed = 0
    /\ ~win_timer.finished
    /\ ~win_timer.paused
    /\ chunks = EmptyBag
    /\ contacts = {}
    /\ collision_started = << >>
    /\ collision_ended = << >>

\* C18: every level, the first and every one started after a return to the
\* menu from Running, Win or Lose, starts with one player with a full tank, the
\* matching mass, Idle, not grounded, multiplier 1, in phase Running, with a
\* WinTimer at zero and nothing of the level before; a level has one player
\* throughout.
C18_LevelStartsFresh ==
    [][ /\ (game_state = "Menu" /\ game_state' = "Game") => LevelIsFresh'
        /\ (game_state' = "Game") => players' = 1 ]_vars

\* A level has started after a level that was lost and left.
C18_Witness ==
    /\ game_state = "Game"
    /\ exited_from = "Lose"
    /\ pc = "frame"
    /\ LevelIsFresh

\* the step is a run of the named Update system
Runs(sys) == sys \in todo /\ sys \notin todo'

\* C19: when start_win_timer_system unpauses the timer it resets the elapsed
\* time to zero, whatever was preserved at the pause, so the tick of that frame
\* leaves exactly the frame's delta as elapsed time; reset_win_timer_system,
\* which pauses the timer, leaves the elapsed time unchanged.
C19_ResumeRestartsTimer ==
    [][ /\ (Runs("start_win_timer_system") /\ win_timer.paused /\ ~win_timer'.paused)
               => (win_timer'.elapsed = 0 /\ ~win_timer'.finished)
        /\ (Runs("tick_win_timer_system") /\ ~win_timer.paused /\ win_timer.elapsed = 0)
               => win_timer'.elapsed = delta
        /\ Runs("reset_win_timer_system") => win_timer'.elapsed = win_timer.elapsed
        /\ (~win_timer.paused /\ win_timer'.paused)
               => win_timer'.elapsed = win_timer.elapsed ]_vars

\* A tick in which the timer was restarted has ended: the timer runs and its
\* elapsed time is the delta of the frame.
C19_Witness ==
    /\ pc = "frame"
    /\ phase = "Running"
    /\ exited_from = "None"
    /\ grounded
    /\ ~win_timer.paused
    /\ delta > 0
    /\ win_timer.elapsed = delta
    /\ next_phase = "None"

\* the samples of the window the pad was placed on
PadWindow == PadStart..(PadStart + LAND_PAD_WINDOW)

\* every sample of the pad's window is at the pad's height, the others are as
\* the noise gave them, and the pad is at the middle of the window
PadIsFlatAndCentred ==
    /\ PadWindow \subseteq SampleIndices
    /\ \A x \in PadWindow : ground_heights[x] = land_pad[2]
    /\ \A x \in SampleIndices \ PadWindow : ground_heights[x] = noise_heights[x]
    /\ 2 * land_pad[1] = (2 * PadStart + LAND_PAD_WINDOW) * CHUNK_GRANULARITY

\* C20 as claimed: the window of a pad is flattened to the mean of all its
\* samples, and the pad is at the window's midpoint at that height.
C20_PadAtWindowMean ==
    (chunk_spawned /\ land_pad # << >>) =>
        /\ PadIsFlatAndCentred
        /\ land_pad[2] * (LAND_PAD_WINDOW + 1) = SumOver(noise_heights, PadWindow)

\* C20 as amended: the window of a pad is flattened to the average of its two
\* endpoint samples, and the pad is at the window's midpoint at that height.
C20_PadAtEndpointAverage ==
    (chunk_spawned /\ land_pad # << >>) =>
        /\ PadIsFlatAndCentred
        /\ 2 * land_pad[2] =
              noise_heights[PadStart] + noise_heights[PadStart + LAND_PAD_WINDOW]

\* A pad was placed on a window whose endpoints differ and whose inner sample
\* was moved to the pad's height.
C20_Witness ==
    /\ chunk_spawned
    /\ land_pad # << >>
    /\ noise_heights[PadStart] # noise_heights[PadStart + LAND_PAD_WINDOW]
    /\ ground_heights[PadStart + 1] # noise_heights[PadStart + 1]

(***************************************************************************)
(* The order of the Update systems within a tick (OrderSpec).              *)
(***************************************************************************)
\* Whenever a system of `order` runs, those before it in `order` have run in
\* this tick and those after it have not yet.
RunInOrder(order) ==
    \A i, j \in 1..Len(order) :
        i < j => /\ Runs(order[j]) => order[i] \notin todo
                 /\ Runs(order[i]) => order[j] \in todo

\* C21 as stated: within every Running tick the systems run in the order
\* input/dynamics, contact classification, win-timer start rule, stop rule and
\* tick rule, then terrain streaming, then camera follow.
C21_StreamingAfterWinTimer ==
    [][ RunInOrder(<< "control_system", "ground_detection_system",
                      "start_win_timer_system", "reset_win_timer_system",
                      "tick_win_timer_system", "terrain_chunk_system",
                      "camera_follow_system" >>) ]_vars

\* C21, amended: within every Running tick the systems run in the order
\* input/dynamics, terrain streaming, camera follow, contact classification,
\* then the win-timer start rule, stop rule and tick rule.
C21_StreamingBeforeContacts ==
    [][ RunInOrder(<< "control_system", "terrain_chunk_system",
                      "camera_follow_system", "ground_detection_system",
                      "start_win_timer_system", "reset_win_timer_system",
                      "tick_win_timer_system" >>) ]_vars

\* In a Running tick the terrain is streamed and the camera has followed the
\* player, and this tick's collision events are still to be classified.
C21_Witness ==
    /\ pc = "update"
    /\ phase = "Running"
    /\ todo = { "ground_detection_system", "start_win_timer_system",
                "reset_win_timer_system", "tick_win_timer_system" }
    /\ LiveOrigins = needed_chunk_origins(player_x)
    /\ camera_x = player_x + quarter_size
    /\ collision_started # << >>

(***************************************************************************)
(* The win timer runs exactly while the landing conditions hold (Spec).    *)
(***************************************************************************)
\* C22: in every Running tick, once start_win_timer_system and
\* reset_win_timer_system have both run, the WinTimer is unpaused if and only
\* if the four landing conditions hold in that tick, and it is so still when
\* the tick ends; in a tick in which a condition is violated
\* tick_win_timer_system neither advances the elapsed time nor requests Win.
\* The first tick of the level, whose timer was created unpaused, is no
\* exception.
C22_TimerRunsIffConditions ==
    [][ /\ Runs("reset_win_timer_system")
             => (~win_timer'.paused <=> LandingConditions(grounded, motion))
        /\ Runs("tick_win_timer_system")
             => /\ ~win_timer'.paused <=> LandingConditions(grounded', motion')
                /\ ~LandingConditions(grounded, motion)
                      => /\ win_timer'.elapsed = win_timer.elapsed
                         /\ next_phase' = next_phase ]_vars

\* A Running tick has ended in which a landing condition was violated and the
\* timer, which had run before, is paused with the time it had.
C22_Witness ==
    /\ pc = "frame"
    /\ phase = "Running"
    /\ ~LandingConditions(grounded, motion)
    /\ win_timer.paused
    /\ win_timer.elapsed > 0

(***************************************************************************)
(* Thrust and the Firing state (FlightSpec).                               *)
(***************************************************************************)
\* C23: in every Running tick in which control_system applies the main
\* engine's thrust and leaves fuel in the tank, the PlayerState is Firing when
\* the tick ends; this includes the first tick of a level that starts with
\* the fire key held.
C23_ThrustMeansFiring ==
    [][ ( /\ Runs("control_system")
          /\ phase = "Running"
          /\ applied_force' = THRUST
          /\ fuel' < fuel
          /\ fuel' > 0 )
        => player_state' = "Firing" ]_vars

(***************************************************************************)
(* The seam of two adjacent chunks (SeamSpec).                             *)
(***************************************************************************)
\* C24: once two adjacent chunks of one generator are generated, the final
\* height of the left chunk's last sample equals the final height of the right
\* chunk's first sample, with or without a landing pad in either chunk.
C24_SeamIsContinuous ==
    (chunk_spawned /\ neighbour.spawned)
        => ground_heights[SampleCount - 1] = neighbour.ground_heights[0]

(***************************************************************************)
(* The Win and Lose screens (OrderSpec).                                   *)
(***************************************************************************)
\* C25: no step that leaves the phase at Win or at Lose changes the fuel,
\* Grounded, the WinTimer, the live chunks or the PlayerState (entering Lose
\* sets the PlayerState to Crashed, once), and control_system,
\* ground_detection_system, the three win-timer systems and
\* terrain_chunk_system run only while the phase is Running.
C25_EndScreensAreFrozen ==
    [][ /\ (phase \in {"Win", "Lose"} /\ phase' = phase)
             => /\ fuel' = fuel
                /\ grounded' = grounded
                /\ win_timer' = win_timer
                /\ chunks' = chunks
                /\ player_state' = player_state
        /\ \A sys \in { "control_system", "ground_detection_system",
                        "start_win_timer_system", "reset_win_timer_system",
                        "tick_win_timer_system", "terrain_chunk_system" } :
              Runs(sys) => phase = "Running" ]_vars

\* A tick on the Win screen has ended: the player has left the ground since
\* the win, the fire key was pressed in this tick, and Grounded, the finished
\* timer and the chunks are as they were.
C25_Witness ==
    /\ pc = "frame"
    /\ phase = "Win"
    /\ keys.space_just_pressed
    /\ ~TouchesGround
    /\ grounded
    /\ win_timer.finished
    /\ just_finished(win_timer)
    /\ fuel = MAX_FUEL
    /\ LiveOrigins = needed_chunk_origins(player_x)

(***************************************************************************)
(* The order of a tick's collision events (Spec).                          *)
(***************************************************************************)
\* every element of the sequence is b
OnlyAbout(evs, b) == \A k \in 1..Len(evs) : evs[k] = b

\* C26: when every collision event ground_detection_system drains in a tick
\* is of the player with one terrain body, and the player touches no other
\* terrain body, Grounded after the run is what the last of these events says:
\* true if the pair's contact ended and then started again within the tick
\* (the pair is in contact), false if its last event is an end.
C26_LastEventDecides ==
    [][ \A b \in Bodies :
          ( /\ Runs("ground_detection_system")
            /\ IsGround(b)
            /\ Len(collision_started) + Len(collision_ended) > 0
            /\ OnlyAbout(collision_started, b)
            /\ OnlyAbout(collision_ended, b)
            /\ \A c \in contacts : IsGround(c) => c = b )
          => grounded' = (b \in contacts) ]_vars

====
